---- MODULE Spec2Model ----
(***************************************************************************)
(* A model of the sudoku solver of src/src/lib.rs: the grid state          *)
(* (Solver), the fill / remove_candidate / decrement_occurrences           *)
(* propagation cascade, the brute_force search and the solve driver.       *)
(***************************************************************************)
EXTENDS Integers, Sequences, FiniteSets, TLC

(***************************************************************************)
(* Program constants.                                                      *)
(***************************************************************************)
\* The side of the grid: the literal 9 of [[Cell; 9]; 9] and of 0..9.
N == 9
\* The side of a square: the literal 3 of coords.0 / 3 and idx / 3.
B == 3
\* u8 arithmetic is modulo 2^8.
U8 == 256

Idx == 0 .. (N - 1)
Digits == 1 .. N
Coords == Idx \X Idx
SquareIdx == 0 .. (B - 1)

\* The value of Result::Ok's error slot.
Ok == "ok"
\* The outcome of a Rust panic (arithmetic overflow / index out of bounds).
Panic == "panic"

(***************************************************************************)
(* Pure helpers.                                                           *)
(***************************************************************************)
cell_to_square(coords) == << coords[1] \div B, coords[2] \div B >>

index_to_3x3_coords(i) == << i \div B, i % B >>

(***************************************************************************)
(* Cell: v = 0 is the variant Candidates(cs), v > 0 is Value(v).           *)
(***************************************************************************)
CellValue(v) == [v |-> v, cs |-> {}]

CellCandidates(cs) == [v |-> 0, cs |-> cs]

IsCandidates(cell) == cell.v = 0

CellDefault == CellCandidates(Digits)

OccurrencesDefaultU8 ==
    [row |-> [i \in Idx |-> [d \in Idx |-> N]],
     col |-> [i \in Idx |-> [d \in Idx |-> N]],
     sqr |-> [i \in SquareIdx |-> [j \in SquareIdx |-> [d \in Idx |-> N]]]]

OccurrencesDefaultBool ==
    [row |-> [i \in Idx |-> [d \in Idx |-> FALSE]],
     col |-> [i \in Idx |-> [d \in Idx |-> FALSE]],
     sqr |-> [i \in SquareIdx |-> [j \in SquareIdx |-> [d \in Idx |-> FALSE]]]]

\* Solver::default().  err is the Result of the call in progress on the grid
\* (Ok, or the &'static str of the Err).  Two history fields: wrapped records
\* that a u8 was decremented at 0 (a panic with overflow checks, a wrap
\* without); stalled records that a fill call that found its cell unfilled
\* returned Ok with unfilled_cells not smaller than at the call.
SolverDefault ==
    [cells |-> [r \in Idx |-> [c \in Idx |-> CellDefault]],
     value_occurrences |-> OccurrencesDefaultBool,
     candidate_occurrences |-> OccurrencesDefaultU8,
     unfilled_cells |-> N * N,
     brute_force_fills |-> 0,
     err |-> Ok,
     wrapped |-> FALSE,
     stalled |-> FALSE]

\* self.cells[coords.0][coords.1].
CellAt(g, coords) == g.cells[coords[1]][coords[2]]

\* The cell at coords is Candidates(cs) with cs containing candidate (the cs
\* of the model's Value(v) is empty).
Lists(g, coords, candidate) == candidate \in CellAt(g, coords).cs

Fail(g, msg) == [g EXCEPT !.err = msg]

\* x -= 1 on a u8.
DecU8(x) == (x - 1) % U8

VARIABLES
    puzzle,      \* the argument of solve: a sequence of characters
    order,       \* the iteration order of the HashSets of this run
    pc,          \* the position of solve / brute_force
    idx,         \* the index of solve's loop over the puzzle
    grid,        \* solve's grid; in the search, the self of the running brute_force
    stack,       \* the brute_force calls in progress that are inside their loop
    result,      \* what solve returned
    fills,       \* history: the number of fill calls solve has made
    last_fill,   \* history: the last fill call made by solve or brute_force
    bf_calls,    \* history: the number of brute_force calls made
    bf_ret,      \* history: the last return of a brute_force call
    prev         \* history: the cells of the solution the puzzle was made from

vars == <<puzzle, order, pc, idx, grid, stack, result, fills, last_fill, bf_calls,
          bf_ret, prev>>

\* The iteration order of a HashSet<u8>: the elements of cs in the order in
\* which they occur in the permutation `order`.
HashIter(cs) == SelectSeq(order, LAMBDA d : d \in cs)

(***************************************************************************)
(* fill / remove_candidate / decrement_occurrences.                        *)
(*                                                                         *)
(* The three functions are mutually recursive, up to 81 fills deep.  The   *)
(* cascade is modelled by the call stack it builds: a machine m is the     *)
(* grid m.g and the stack m.st of the frames of the calls in progress      *)
(* (the running call first); Step executes the running call up to its next *)
(* call or return.  A frame holds the arguments of the call and its        *)
(* position: pc, the loop index idx and, for fill, the rest of the         *)
(* iteration over former_candidates (and, as history, unfilled_cells at    *)
(* the call).                                                              *)
(***************************************************************************)
Frame(fn, coords, value, ignore) ==
    [fn |-> fn, pc |-> "enter", coords |-> coords, value |-> value,
     ignore |-> ignore, idx |-> 0, former |-> <<>>, before |-> 0]

\* An ignore argument that skips the checks of all three groups.
IgnoredAll(ignore, group) == ignore # "None"

\* Whether the hidden-single check of group `group` is skipped under the
\* ignore argument `ignore` (lines 252, 253, 264, 275).
Ignored(ignore, group) == ignore = "All" \/ ignore = group

\* Lines 248, 249 without line 250: the counter of the square is left.
DecrementRowCol(g, coords, candidate_idx) ==
    LET co == g.candidate_occurrences
        under == co.row[coords[1]][candidate_idx] = 0
                 \/ co.col[coords[2]][candidate_idx] = 0
    IN [g EXCEPT
          !.candidate_occurrences.row[coords[1]][candidate_idx] = DecU8(@),
          !.candidate_occurrences.col[coords[2]][candidate_idx] = DecU8(@),
          !.wrapped = @ \/ under]

\* Lines 248-250: the three counters of the removed candidate.
DecrementCounters(g, coords, candidate_idx) ==
    LET square == cell_to_square(coords)
        co == g.candidate_occurrences
        under == co.row[coords[1]][candidate_idx] = 0
                 \/ co.col[coords[2]][candidate_idx] = 0
                 \/ co.sqr[square[1]][square[2]][candidate_idx] = 0
    IN [g EXCEPT
          !.candidate_occurrences.row[coords[1]][candidate_idx] = DecU8(@),
          !.candidate_occurrences.col[coords[2]][candidate_idx] = DecU8(@),
          !.candidate_occurrences.sqr[square[1]][square[2]][candidate_idx] = DecU8(@),
          !.wrapped = @ \/ under]

\* Lines 191-198: the cell and the ignore group of the k-th remove_candidate
\* call of fill's loop (the loop's idx is k / 3; row, column, square in turn).
PeerTarget(coords, k) ==
    LET i == k \div 3
        square == cell_to_square(coords)
        relative == index_to_3x3_coords(i)
        absolute == << relative[1] + square[1] * B, relative[2] + square[2] * B >>
    IN CASE k % 3 = 0 -> [coords |-> <<coords[1], i>>, ignore |-> "Row"]
         [] k % 3 = 1 -> [coords |-> <<i, coords[2]>>, ignore |-> "Column"]
         [] k % 3 = 2 -> [coords |-> absolute, ignore |-> "Square"]

\* PeerTarget, tabulated.
PeerTargets == [r \in Idx |-> [c \in Idx |-> [k \in 0 .. (3 * N - 1) |-> PeerTarget(<<r, c>>, k)]]]

Least(S) == CHOOSE x \in S : \A y \in S : x <= y

\* The return of the running call: Ok(()) pops its frame, Err(msg) is passed
\* up by the ? of every caller, so that the whole cascade returns Err(msg).
Return(m) == [m EXCEPT !.st = Tail(@)]

ReturnErr(m, g, msg) == [g |-> Fail(g, msg), st |-> <<>>]

\* The running call moves on to position at, i.
Goto(m, at, i) == [m EXCEPT !.st[1].pc = at, !.st[1].idx = i]

\* The running call moves on to position at, i and calls frame f.
Call(m, at, i, f) == [m EXCEPT !.st = <<f, [@[1] EXCEPT !.pc = at, !.idx = i]>> \o Tail(@)]

\* Lines 252-290: the group whose cells decrement_occurrences scans next, the
\* groups before `from` being done: the first group, from `from` on, that is
\* not ignored and whose counter of the candidate is 1; "none" if there is none.
NextScan(g, coords, candidate, ignore, from) ==
    LET square == cell_to_square(coords)
        co == g.candidate_occurrences
        row == ~Ignored(ignore, "Row") /\ co.row[coords[1]][candidate - 1] = 1
        col == ~Ignored(ignore, "Column") /\ co.col[coords[2]][candidate - 1] = 1
        sqr == ~Ignored(ignore, "Square") /\ co.sqr[square[1]][square[2]][candidate - 1] = 1
    IN CASE from = "row" /\ row -> "row"
         [] from \in {"row", "col"} /\ col -> "col"
         [] from \in {"row", "col", "sqr"} /\ sqr -> "sqr"
         [] OTHER -> "none"

\* Lines 239-293, from the call to the first scan: m is the machine at the
\* call, the caller running.  Without a scan the call returns at once.
decrement_occurrences_enter(m, coords, candidate, ignore) ==
    LET g == DecrementCounters(m.g, coords, candidate - 1)
        scan == NextScan(g, coords, candidate, ignore, "row")
    IN IF scan = "none"
       THEN [m EXCEPT !.g = g]
       ELSE [g |-> g,
             st |-> <<[Frame("decrement_occurrences", coords, candidate, ignore)
                         EXCEPT !.pc = scan]>> \o m.st]

\* Lines 255-287: the cell at position i of the scan of group `at`.
ScanTarget(coords, at, i) ==
    LET square == cell_to_square(coords)
    IN CASE at = "row" -> <<coords[1], i>>
         [] at = "col" -> <<i, coords[2]>>
         [] at = "sqr" -> << B * square[1] + (i \div B), B * square[2] + (i % B) >>

\* Lines 255-261, 266-272, 277-287: the scan of a group from position idx on.
\* The positions whose cell does not list the candidate are passed over: the
\* loop body does nothing there.
decrement_occurrences_step(m) ==
    LET f == m.st[1]
        g == m.g
        coords == f.coords
        candidate == f.value
        hits == {i \in f.idx .. (N - 1) : Lists(g, ScanTarget(coords, f.pc, i), candidate)}
        after == CASE f.pc = "row" -> NextScan(g, coords, candidate, f.ignore, "col")
                   [] f.pc = "col" -> NextScan(g, coords, candidate, f.ignore, "sqr")
                   [] f.pc = "sqr" -> "none"
    IN IF hits = {}
       THEN IF after = "none" THEN Return(m) ELSE Goto(m, after, 0)
       ELSE Call(m, f.pc, Least(hits) + 1,
                 Frame("fill", ScanTarget(coords, f.pc, Least(hits)), candidate, "None"))

\* Lines 219-235, from the call to the call of fill or, without one, to the
\* end of decrement_occurrences_enter: m is the machine at the call, the caller
\* running.
remove_candidate_enter(m, coords, candidate, unique_occurence_ignore) ==
    IF Lists(m.g, coords, candidate)
    THEN LET cs == CellAt(m.g, coords).cs \ {candidate}
             g == [m.g EXCEPT !.cells[coords[1]][coords[2]] = CellCandidates(cs)]
         IN IF Cardinality(cs) = 1
            THEN [g |-> g,
                  st |-> <<Frame("fill", coords, CHOOSE leftover \in cs : TRUE, "None"),
                           Frame("remove_candidate", coords, candidate,
                                 unique_occurence_ignore)>> \o m.st]
            ELSE decrement_occurrences_enter([m EXCEPT !.g = g], coords, candidate,
                                             unique_occurence_ignore)
    ELSE m

\* Line 231, after the fill of line 229 has returned Ok.
remove_candidate_step(m) ==
    LET f == m.st[1]
    IN decrement_occurrences_enter(Return(m), f.coords, f.value, f.ignore)

\* A line 162 that rejects every fill of a filled cell.
DiffersAlways(v, value) == TRUE

\* Line 162: the filled cell holds another value than the one to fill in.
Differs(v, value) == v # value

\* Lines 167-184 without the conflict checks.
PlacedNever(occurrences, value) == FALSE

\* Lines 167-184: mem::replace(&mut occurrences[value as usize - 1], true), the
\* former flag: the value is already placed in the group.
Placed(occurrences, value) == occurrences[value - 1]

\* Line 187 without line 188: the cell is not counted as filled.
SetValueUncounted(g, coords, value) ==
    [g EXCEPT !.cells[coords[1]][coords[2]] = CellValue(value)]

\* Lines 187-188: the cell takes the value and is counted as filled.
SetValue(g, coords, value) ==
    [g EXCEPT !.cells[coords[1]][coords[2]] = CellValue(value),
              !.unfilled_cells = DecU8(@),
              !.wrapped = @ \/ g.unfilled_cells = 0]

\* Lines 158-216.
fill_step(m) ==
    LET f == m.st[1]
        g == m.g
        coords == f.coords
        value == f.value
        square == cell_to_square(coords)
        cell == CellAt(g, coords)
        vo == g.value_occurrences
    IN CASE f.pc = "enter" ->
              IF ~IsCandidates(cell)
              THEN IF Differs(cell.v, value)
                   THEN ReturnErr(m, g, "cannot change already filled in cell")
                   ELSE Return(m)
              ELSE IF value - 1 \notin Idx
              THEN ReturnErr(m, g, Panic)
              ELSE IF Placed(vo.row[coords[1]], value)
              THEN ReturnErr(m, g, "fill results in row conflict")
              ELSE IF Placed(vo.col[coords[2]], value)
              THEN ReturnErr(m, [g EXCEPT !.value_occurrences.row[coords[1]][value - 1] = TRUE],
                             "fill results in column conflict")
              ELSE IF Placed(vo.sqr[square[1]][square[2]], value)
              THEN ReturnErr(m, [g EXCEPT !.value_occurrences.row[coords[1]][value - 1] = TRUE,
                                          !.value_occurrences.col[coords[2]][value - 1] = TRUE],
                             "fill results in square conflict")
              ELSE [g |-> SetValue([g EXCEPT
                             !.value_occurrences.row[coords[1]][value - 1] = TRUE,
                             !.value_occurrences.col[coords[2]][value - 1] = TRUE,
                             !.value_occurrences.sqr[square[1]][square[2]][value - 1] = TRUE],
                             coords, value),
                    st |-> <<[f EXCEPT !.pc = "peers", !.idx = 0,
                                       !.former = HashIter(cell.cs),
                                       !.before = g.unfilled_cells]>> \o Tail(m.st)]
         [] f.pc = "peers" ->
              \* The calls that find nothing to remove (line 225, 226) do nothing.
              LET targets == PeerTargets[coords[1]][coords[2]]
                  hits == {k \in f.idx .. (3 * N - 1) : Lists(g, targets[k].coords, value)}
              IN IF hits = {}
                 THEN Goto(m, "former", 0)
                 ELSE LET t == targets[Least(hits)]
                      IN remove_candidate_enter(Goto(m, "peers", Least(hits) + 1),
                                                t.coords, value, t.ignore)
         [] f.pc = "former" ->
              IF f.former = <<>>
              THEN Return([m EXCEPT !.g.stalled = @ \/ ~(g.unfilled_cells < f.before)])
              ELSE LET candidate == Head(f.former)
                   IN decrement_occurrences_enter(
                          [m EXCEPT !.st[1].former = Tail(@)], coords, candidate,
                          IF candidate = value THEN "All" ELSE "None")

Step(m) ==
    CASE m.st[1].fn = "fill" -> fill_step(m)
      [] m.st[1].fn = "remove_candidate" -> remove_candidate_step(m)
      [] m.st[1].fn = "decrement_occurrences" -> decrement_occurrences_step(m)

\* The outermost call has returned, Ok or Err.
Done(m) == m.st = <<>> \/ m.g.err # Ok

\* Up to 2^n steps of m, stopping when the outermost call has returned.
RECURSIVE Run(_, _)
Run(m, n) ==
    IF Done(m) THEN m
    ELSE IF n = 0 THEN Step(m)
    ELSE LET h == Run(m, n - 1)
         IN IF Done(h) THEN h ELSE Run(h, n - 1)

\* The steps of m until the outermost call has returned.
RECURSIVE RunAll(_, _)
RunAll(m, n) ==
    LET h == Run(m, n)
    IN IF Done(h) THEN h ELSE RunAll(h, n + 1)

\* self.fill(coords, value): the grid after the call, its Result in err.
fill(g, coords, value) ==
    RunAll([g |-> g, st |-> <<Frame("fill", coords, value, "None")>>], 0).g

(***************************************************************************)
(* brute_force, lines 298-342.                                             *)
(***************************************************************************)
\* A brute_force without lines 299-301.
SolvedNever(g) == FALSE

\* Line 299.
Solved(g) == g.unfilled_cells = 0

\* The cells of g that hold candidates.
Unfilled(g) == {c \in Coords : IsCandidates(CellAt(g, c))}

\* Lines 303-318: the first cell, in row-major order, among the unfilled
\* cells with the fewest candidates; <<>> is None.
HighestEntropy(g) ==
    LET unfilled == Unfilled(g)
        least == {c \in unfilled :
                    \A o \in unfilled :
                       Cardinality(CellAt(g, c).cs) <= Cardinality(CellAt(g, o).cs)}
    IN IF unfilled = {} THEN <<>>
       ELSE CHOOSE c \in least :
              \A o \in least : c[1] * N + c[2] <= o[1] * N + o[2]

\* A loop that stops after its first candidate.
NoNextCandidates(todo) == <<>>

\* Line 327: the loop goes on with the candidates after the one it tried.
NextCandidates(todo) == Tail(todo)

\* A brute_force without line 330.
CountNothing(branch) == branch

\* Line 330: branch.brute_force_fills += 1.
CountBruteForce(branch) ==
    [branch EXCEPT !.brute_force_fills = (@ + 1) % U8]

(***************************************************************************)
(* solve, lines 125-155, and Solution::row_representation, lines 45-50.    *)
(***************************************************************************)
DigitChars == <<"0", "1", "2", "3", "4", "5", "6", "7", "8", "9">>

\* char::to_digit(10): the digit of c, -1 for None.
to_digit(c) ==
    IF \E i \in 1 .. Len(DigitChars) : DigitChars[i] = c
    THEN (CHOOSE i \in 1 .. Len(DigitChars) : DigitChars[i] = c) - 1
    ELSE -1

\* char::from_digit(d, 10).unwrap(), for d < 10.
from_digit(d) == DigitChars[d + 1]

\* A solve without lines 141-144.
NeedsBruteForceNever(g) == FALSE

\* Line 141.
NeedsBruteForce(g) == g.unfilled_cells > 0

NoResult == [tag |-> "none", cells |-> <<>>, brute_forces |-> 0, err |-> Ok]

ResultErr(msg) ==
    [tag |-> IF msg = Panic THEN "panic" ELSE "Err",
     cells |-> <<>>, brute_forces |-> 0, err |-> msg]

\* Lines 146-154: a cell still holding candidates is written as 0.
MakeSolution(g) ==
    [tag |-> "Ok",
     cells |-> [r \in Idx |-> [c \in Idx |->
                 IF IsCandidates(g.cells[r][c]) THEN 0 ELSE g.cells[r][c].v]],
     brute_forces |-> g.brute_force_fills,
     err |-> Ok]

\* Lines 45-50: the cells of a solution as 81 characters, row by row.
row_representation(cells) ==
    [i \in 1 .. N * N |-> from_digit(cells[(i - 1) \div N][(i - 1) % N])]

\* History of a fill call made by solve or brute_force on grid g, leaving the
\* grid `after`: who called, whether the cell was filled already, unfilled_cells
\* before and after, the Result, whether the grid was left as it was, and the
\* history fields of the grid.
NoFill ==
    [by |-> "none", was_filled |-> FALSE, before |-> 0, after |-> 0, err |-> Ok,
     same |-> TRUE, stalled |-> FALSE, wrapped |-> FALSE]

FillRecord(by, g, coords, after) ==
    [by |-> by, was_filled |-> ~IsCandidates(CellAt(g, coords)),
     before |-> g.unfilled_cells, after |-> after.unfilled_cells, err |-> after.err,
     same |-> (after = g), stalled |-> after.stalled, wrapped |-> after.wrapped]

\* History of a return of brute_force: the number of unfilled cells of the grid
\* it was called on, its Result, and the number of brute_force calls it was
\* made under.
NoReturn == [unfilled |-> 0, err |-> "none", depth |-> 0]

\* Lines 126-128.
CheckSize ==
    /\ pc = "start"
    /\ IF Len(puzzle) # N * N
       THEN /\ result' = ResultErr("invalid puzzle size")
            /\ pc' = "done"
       ELSE /\ pc' = "load"
            /\ UNCHANGED result
    /\ UNCHANGED <<puzzle, order, idx, grid, stack, fills, last_fill, bf_calls, bf_ret, prev>>

\* Lines 133-134: the character is a digit.
LoadSeed ==
    /\ pc = "load"
    /\ idx < Len(puzzle)
    /\ to_digit(puzzle[idx + 1]) # -1
    /\ LET coords == <<idx \div N, idx % N>>
           value == to_digit(puzzle[idx + 1])
           g == fill(grid, coords, value)
       IN /\ grid' = g
          /\ fills' = fills + 1
          /\ last_fill' = FillRecord("solve", grid, coords, g)
          /\ IF g.err = Ok
             THEN /\ idx' = idx + 1
                  /\ UNCHANGED <<pc, result>>
             ELSE /\ result' = ResultErr(g.err)
                  /\ pc' = "done"
                  /\ UNCHANGED idx
    /\ UNCHANGED <<puzzle, order, stack, bf_calls, bf_ret, prev>>

\* Line 135: the iterations over a run of '.' characters, which do nothing.
LoadBlank ==
    /\ pc = "load"
    /\ idx < Len(puzzle)
    /\ puzzle[idx + 1] = "."
    /\ idx' = Least({i \in (idx + 1) .. Len(puzzle) :
                       i = Len(puzzle) \/ puzzle[i + 1] # "."})
    /\ UNCHANGED <<puzzle, order, pc, grid, stack, result, fills, last_fill, bf_calls,
                   bf_ret, prev>>

\* Lines 135-136: any other character.
LoadInvalid ==
    /\ pc = "load"
    /\ idx < Len(puzzle)
    /\ to_digit(puzzle[idx + 1]) = -1
    /\ puzzle[idx + 1] # "."
    /\ result' = ResultErr("invalid character in puzzle")
    /\ pc' = "done"
    /\ UNCHANGED <<puzzle, order, idx, grid, stack, fills, last_fill, bf_calls, bf_ret, prev>>

\* Lines 141-143: cells are left, brute_force is called.
StartBruteForce ==
    /\ pc = "load"
    /\ idx = Len(puzzle)
    /\ NeedsBruteForce(grid)
    /\ pc' = "brute_force"
    /\ bf_calls' = bf_calls + 1
    /\ UNCHANGED <<puzzle, order, idx, grid, stack, result, fills, last_fill, bf_ret, prev>>

\* Lines 141-154: no cell is left, the solution is built from the grid.
SolvedByFills ==
    /\ pc = "load"
    /\ idx = Len(puzzle)
    /\ ~NeedsBruteForce(grid)
    /\ result' = MakeSolution(grid)
    /\ pc' = "done"
    /\ UNCHANGED <<puzzle, order, idx, grid, stack, fills, last_fill, bf_calls, bf_ret, prev>>

\* A brute_force call on g returns Err(msg) to the call that made it: to the
\* loop of the brute_force on top of stk (line 331, which goes on with its
\* next candidate), or to solve (line 143, which returns the error).
BruteForceErr(msg, stk, g) ==
    /\ bf_ret' = [unfilled |-> Cardinality(Unfilled(g)), err |-> msg, depth |-> Len(stk)]
    /\ stack' = stk
    /\ IF stk = <<>>
       THEN /\ result' = ResultErr(msg)
            /\ pc' = "done"
       ELSE /\ pc' = "branch"
            /\ UNCHANGED result

\* Lines 299-301: brute_force on a grid without unfilled cells returns it.
BruteForceSolved ==
    /\ pc = "brute_force"
    /\ Solved(grid)
    /\ bf_ret' = [unfilled |-> Cardinality(Unfilled(grid)), err |-> Ok, depth |-> Len(stack)]
    /\ pc' = "found"
    /\ UNCHANGED <<puzzle, order, idx, grid, stack, result, fills, last_fill, bf_calls, prev>>

\* Lines 303-326: brute_force picks its cell and enters its loop.
BruteForceSelect ==
    /\ pc = "brute_force"
    /\ ~Solved(grid)
    /\ LET highest_entropy == HighestEntropy(grid)
       IN IF highest_entropy = <<>>
          THEN BruteForceErr("no unfilled cell was found", stack, grid)
          ELSE /\ stack' = <<[self |-> grid, coords |-> highest_entropy,
                              todo |-> HashIter(CellAt(grid, highest_entropy).cs)]>> \o stack
               /\ pc' = "branch"
               /\ UNCHANGED <<result, bf_ret>>
    /\ UNCHANGED <<puzzle, order, idx, grid, fills, last_fill, bf_calls, prev>>

\* Lines 327-334: the next candidate is filled in a clone; if the fill
\* succeeds, brute_force is called on the clone.
BruteForceBranch ==
    /\ pc = "branch"
    /\ stack[1].todo # <<>>
    /\ LET top == stack[1]
           candidate == Head(top.todo)
           branch == fill(top.self, top.coords, candidate)
       IN /\ last_fill' = FillRecord("brute_force", top.self, top.coords, branch)
          /\ stack' = <<[top EXCEPT !.todo = NextCandidates(@)]>> \o Tail(stack)
          /\ IF branch.err = Ok
             THEN /\ grid' = CountBruteForce(branch)
                  /\ pc' = "brute_force"
                  /\ bf_calls' = bf_calls + 1
             ELSE UNCHANGED <<grid, pc, bf_calls>>
    /\ UNCHANGED <<puzzle, order, idx, result, fills, bf_ret, prev>>

\* Line 341: every candidate has failed.
BruteForceExhausted ==
    /\ pc = "branch"
    /\ stack[1].todo = <<>>
    /\ BruteForceErr("all branches exhausted", Tail(stack), stack[1].self)
    /\ UNCHANGED <<puzzle, order, idx, grid, fills, last_fill, bf_calls, prev>>

\* Lines 331-332 and 143-154: Ok(branch) is returned by every brute_force in
\* progress, and solve builds the solution from it.
BruteForceFound ==
    /\ pc = "found"
    /\ stack' = <<>>
    /\ result' = MakeSolution(grid)
    /\ pc' = "done"
    /\ UNCHANGED <<puzzle, order, idx, grid, fills, last_fill, bf_calls, bf_ret, prev>>

\* The caller solves the output of a successful solve of a puzzle with
\* blanks again: solve(solution.row_representation().chars().collect()).
SolveOutput ==
    /\ pc = "done"
    /\ result.tag = "Ok"
    /\ prev = <<>>
    /\ \E i \in 1 .. Len(puzzle) : puzzle[i] = "."
    /\ puzzle' = row_representation(result.cells)
    /\ prev' = result.cells
    /\ pc' = "start"
    /\ idx' = 0
    /\ grid' = SolverDefault
    /\ result' = NoResult
    /\ fills' = 0
    /\ last_fill' = NoFill
    /\ bf_calls' = 0
    /\ bf_ret' = NoReturn
    /\ UNCHANGED <<order, stack>>

(***************************************************************************)
(* The inputs.                                                             *)
(***************************************************************************)
\* A complete grid, row by row.
Solution ==
    << 9,6,2, 5,8,7, 4,1,3,
       4,5,1, 6,9,3, 2,8,7,
       7,3,8, 1,2,4, 6,9,5,
       8,7,5, 2,6,1, 3,4,9,
       1,9,4, 3,5,8, 7,6,2,
       6,2,3, 7,4,9, 1,5,8,
       3,1,9, 8,7,6, 5,2,4,
       2,4,7, 9,1,5, 8,3,6,
       5,8,6, 4,3,2, 9,7,1 >>

\* The largest number of cells blanked in a puzzle made from Solution.
MaxBlanks == 59

\* Solution with b cells blanked: those whose index i has (10 * i) % 81 < b.
Masked(b) ==
    [i \in 1 .. N * N |->
       IF (10 * (i - 1)) % (N * N) < b THEN "." ELSE from_digit(Solution[i])]

MaskedPuzzles == {Masked(b) : b \in 0 .. MaxBlanks}

\* A puzzle with one character replaced: by '0', by a letter, or by the digit
\* after the one of Solution.
BadPositions == {0, 61, 80}

BadChars(pos) == {"0", "x", from_digit((Solution[pos + 1] % N) + 1)}

MutatedPuzzles ==
    UNION {{[Masked(b) EXCEPT ![pos + 1] = ch] : ch \in BadChars(pos)} :
             b \in {0, MaxBlanks}, pos \in BadPositions}

\* Puzzles of another length than 81.
ResizedPuzzles ==
    {SubSeq(Masked(MaxBlanks), 1, N * N - 1), Masked(MaxBlanks) \o <<".">>, <<>>}

Puzzles == MaskedPuzzles \cup MutatedPuzzles \cup ResizedPuzzles

\* The puzzle whose only seeds are d at columns c1 and c2 of row r.
RowConflict(d, r, c1, c2) ==
    [i \in 1 .. N * N |->
       IF i - 1 \in {r * N + c1, r * N + c2} THEN from_digit(d) ELSE "."]

RowConflictPuzzles ==
    {RowConflict(t[1], t[2], t[3], t[4]) :
        t \in {u \in Digits \X Idx \X Idx \X Idx : u[3] < u[4]}}

\* Puzzles that, with those of RowConflictPuzzles, take solve through all of
\* its code.
OtherPuzzles ==
    {Masked(0), Masked(MaxBlanks), [Masked(0) EXCEPT ![N * N] = "x"]}

\* The iteration orders of the HashSets.
Orders == {<<1, 2, 3, 4, 5, 6, 7, 8, 9>>, <<9, 8, 7, 6, 5, 4, 3, 2, 1>>}

\* The start of solve(p).
Start(p) ==
    /\ puzzle = p
    /\ pc = "start"
    /\ idx = 0
    /\ grid = SolverDefault
    /\ stack = <<>>
    /\ result = NoResult
    /\ fills = 0
    /\ last_fill = NoFill
    /\ bf_calls = 0
    /\ bf_ret = NoReturn
    /\ prev = <<>>

Init ==
    /\ order \in Orders
    /\ \E p \in Puzzles : Start(p)

InitRow ==
    /\ order \in Orders
    /\ \E p \in RowConflictPuzzles \cup OtherPuzzles : Start(p)

Next ==
    \/ CheckSize
    \/ LoadSeed
    \/ LoadBlank
    \/ LoadInvalid
    \/ StartBruteForce
    \/ SolvedByFills
    \/ BruteForceSolved
    \/ BruteForceSelect
    \/ BruteForceBranch
    \/ BruteForceExhausted
    \/ BruteForceFound
    \/ SolveOutput

Spec == Init /\ [][Next]_vars

SpecRow == InitRow /\ [][Next]_vars

(***************************************************************************)
(* Properties.                                                             *)
(***************************************************************************)
\* The 27 groups: the rows, the columns and the squares.
RowGroup(r) == {<<r, c>> : c \in Idx}

ColGroup(c) == {<<r, c>> : r \in Idx}

SqrGroup(i, j) == {co \in Coords : cell_to_square(co) = <<i, j>>}

Groups ==
    {RowGroup(r) : r \in Idx} \cup {ColGroup(c) : c \in Idx}
        \cup {SqrGroup(i, j) : i \in SquareIdx, j \in SquareIdx}

\* cells is a complete grid with every digit once in every group.
ValidGrid(cells) ==
    /\ \A co \in Coords : cells[co[1]][co[2]] \in Digits
    /\ \A G \in Groups : \A d \in Digits :
          Cardinality({co \in G : cells[co[1]][co[2]] = d}) = 1

\* 81 characters, each '1'..'9' or '.'.
WellFormed(p) ==
    /\ Len(p) = N * N
    /\ \A i \in 1 .. Len(p) : p[i] = "." \/ to_digit(p[i]) \in Digits

\* The cells of puzzle p as numbers: the seed digit, -1 for any other character.
CellsOf(p) == [r \in Idx |-> [c \in Idx |-> to_digit(p[r * N + c + 1])]]

\* cells holds every seed of the well-formed puzzle p.
Completes(cells, p) ==
    \A co \in Coords :
       CellsOf(p)[co[1]][co[2]] \in Digits
          => cells[co[1]][co[2]] = CellsOf(p)[co[1]][co[2]]

SolutionCells == [r \in Idx |-> [c \in Idx |-> Solution[r * N + c + 1]]]

\* The complete grids known for the puzzle: Solution and, for a puzzle made
\* from an output of solve, that output.
KnownGrids == {SolutionCells} \cup (IF prev = <<>> THEN {} ELSE {prev})

\* C1: when solve returns Ok, the returned cells are a valid completion of the
\* input: every cell holds a digit 1..9 (no 0), every row, column and square
\* holds each digit once, and every seed of the input is in its cell.
C1_ValidCompletion ==
    result.tag = "Ok" => ValidGrid(result.cells) /\ Completes(result.cells, puzzle)

\* solve has returned Ok on a puzzle with blanks, after a search.
C1_Witness ==
    /\ pc = "done"
    /\ result.tag = "Ok"
    /\ prev = <<>>
    /\ bf_calls > 0
    /\ \E i \in 1 .. Len(puzzle) : puzzle[i] = "."

\* C2: on a well-formed puzzle whose seeds have a valid completion, solve
\* returns Ok: no conflict error, no already-filled error and no
\* "all branches exhausted" comes from propagation or search.
C2_SolvableSucceeds ==
    (/\ pc = "done"
     /\ WellFormed(puzzle)
     /\ \E cells \in KnownGrids : ValidGrid(cells) /\ Completes(cells, puzzle))
    => result.tag = "Ok"

\* solve has returned Ok on a puzzle made from Solution after a search that
\* gave up branches: more brute_force calls than those of the chain returned.
C2_Witness ==
    /\ pc = "done"
    /\ result.tag = "Ok"
    /\ WellFormed(puzzle)
    /\ Completes(SolutionCells, puzzle)
    /\ bf_calls > result.brute_forces + 1

\* C3: on a puzzle that is not well-formed, solve returns one of the two
\* malformed-input errors, having made no fill and no brute_force call.
C3_MalformedRejectedUnsolved ==
    (pc = "done" /\ ~WellFormed(puzzle))
    => /\ result.err \in {"invalid puzzle size", "invalid character in puzzle"}
       /\ fills = 0
       /\ bf_calls = 0

\* C4: on a fully seeded valid grid, solve returns Ok with the same 81 digits,
\* brute_forces = 0 and no brute_force call; a seed fill of a cell that
\* propagation filled with the same digit returns Ok and leaves the grid as
\* it was.
C4_Idempotent ==
    /\ (/\ pc = "done"
        /\ WellFormed(puzzle)
        /\ ValidGrid(CellsOf(puzzle)))
       => /\ result.tag = "Ok"
          /\ result.cells = CellsOf(puzzle)
          /\ result.brute_forces = 0
          /\ bf_calls = 0
    /\ (/\ last_fill.by = "solve"
        /\ last_fill.was_filled
        /\ last_fill.err = Ok)
       => last_fill.same

\* solve has returned on its own output, the last seed fill having found its
\* cell filled by propagation.
C4_Witness ==
    /\ pc = "done"
    /\ prev # <<>>
    /\ puzzle = row_representation(prev)
    /\ result.tag = "Ok"
    /\ fills = N * N
    /\ last_fill.was_filled

\* C5: the brute_forces of an Ok result is the number of brute_force calls in
\* progress around the call that found the solved grid, each of which has
\* made one fill of the chain; it is 0 exactly when brute_force was not called.
C5_BruteForcesIsDepth ==
    /\ pc \in {"brute_force", "found"} => grid.brute_force_fills = Len(stack)
    /\ result.tag = "Ok"
       => /\ result.brute_forces = bf_ret.depth
          /\ (result.brute_forces = 0) <=> (bf_calls = 0)

\* solve has returned Ok after a search of depth two or more that gave up
\* branches.
C5_Witness ==
    /\ pc = "done"
    /\ result.tag = "Ok"
    /\ result.brute_forces >= 2
    /\ bf_calls > result.brute_forces + 1
    /\ result.brute_forces < Cardinality({i \in 1 .. Len(puzzle) : puzzle[i] = "."})

\* The positions of the seeds of p.
Seeds(p) == {i \in 1 .. Len(p) : p[i] # "."}

\* p has 81 characters and two seeds, the same digit in one row.
IsRowConflict(p) ==
    /\ Len(p) = N * N
    /\ \E i, j \in Seeds(p) :
          /\ i < j
          /\ Seeds(p) = {i, j}
          /\ (i - 1) \div N = (j - 1) \div N
          /\ p[i] = p[j]
          /\ to_digit(p[i]) \in Digits

\* C6: on a puzzle whose only seeds are one digit twice in one row, solve
\* returns "fill results in row conflict" from its second seed fill, and
\* brute_force is never called.
C6_RowConflict ==
    IsRowConflict(puzzle)
    => /\ pc \notin {"brute_force", "branch", "found"}
       /\ bf_calls = 0
       /\ pc = "done"
          => /\ result.tag = "Err"
             /\ result.err = "fill results in row conflict"
             /\ fills = 2

\* solve has returned on the puzzle with the same digit in the last two cells
\* of the last row.
C6_Witness ==
    /\ pc = "done"
    /\ IsRowConflict(puzzle)
    /\ Seeds(puzzle) = {N * N - 1, N * N}
    /\ result.tag = "Err"
    /\ idx = N * N - 1

\* C7 as stated: every fill call that returns Ok leaves unfilled_cells
\* smaller than it was at the call.
C7_EveryFillDecreases ==
    (last_fill.by # "none" /\ last_fill.err = Ok)
    => last_fill.after < last_fill.before

\* C7, amended: a fill call that returns Ok leaves unfilled_cells smaller if
\* its cell was unfilled (the calls inside the cascade too) and as it was if
\* the cell held the value already; unfilled_cells is the number of cells
\* holding candidates after every call that returned Ok, and 0 in the grid an
\* Ok result is built from.
C7_FillDecreasesUnlessFilled ==
    /\ (last_fill.by # "none" /\ last_fill.err = Ok)
       => IF last_fill.was_filled
          THEN last_fill.after = last_fill.before
          ELSE last_fill.after < last_fill.before
    /\ ~last_fill.stalled
    /\ ~grid.stalled
    /\ grid.err = Ok => grid.unfilled_cells = Cardinality(Unfilled(grid))
    /\ result.tag = "Ok" => grid.unfilled_cells = 0

\* A fill of the search has returned Ok on an unfilled cell, propagation
\* having filled further cells.
C7_Witness ==
    /\ last_fill.by = "brute_force"
    /\ last_fill.err = Ok
    /\ ~last_fill.was_filled
    /\ last_fill.after < last_fill.before - 1

\* C8 as stated: a brute_force called on a grid without unfilled cells returns
\* an error other than "all branches exhausted".
C8_SolvedGridFails ==
    (bf_ret.err # "none" /\ bf_ret.unfilled = 0)
    => bf_ret.err \notin {Ok, "all branches exhausted"}

\* C8, amended: a brute_force called on a grid without unfilled cells returns
\* Ok, and only such a call does; "no unfilled cell was found" is never
\* returned.
C8_SolvedGridReturned ==
    /\ bf_ret.err # "none" => (bf_ret.unfilled = 0 <=> bf_ret.err = Ok)
    /\ bf_ret.err # "no unfilled cell was found"
    /\ pc = "found" => Unfilled(grid) = {} /\ bf_ret.err = Ok

\* A brute_force called by a brute_force on a grid without unfilled cells has
\* returned.
C8_Witness ==
    /\ pc = "found"
    /\ bf_ret.unfilled = 0
    /\ bf_ret.depth > 0
    /\ Unfilled(grid) = {}

\* The cells of the square i, j, in the order of index_to_3x3_coords.
SquareCell(i, j, k) == << B * i + index_to_3x3_coords(k)[1], B * j + index_to_3x3_coords(k)[2] >>

\* The number of unfilled cells of a row, a column, a square of g that list d.
RowCount(g, r, d) == Cardinality({c \in Idx : Lists(g, <<r, c>>, d)})

ColCount(g, c, d) == Cardinality({r \in Idx : Lists(g, <<r, c>>, d)})

SqrCount(g, i, j, d) == Cardinality({k \in Idx : Lists(g, SquareCell(i, j, k), d)})

\* Every counter of candidate_occurrences is the number of unfilled cells of
\* its group that list its digit.
CountersLive(g) ==
    LET co == g.candidate_occurrences
    IN /\ \A r \in Idx : \A d \in Digits : co.row[r][d - 1] = RowCount(g, r, d)
       /\ \A c \in Idx : \A d \in Digits : co.col[c][d - 1] = ColCount(g, c, d)
       /\ \A i \in SquareIdx : \A j \in SquareIdx : \A d \in Digits :
             co.sqr[i][j][d - 1] = SqrCount(g, i, j, d)

\* C9: in the grid of solve after every fill that returned Ok, and in every
\* grid brute_force is called on or returns, each counter of
\* candidate_occurrences is the number of unfilled cells of its group that
\* list its digit; no u8 is ever decremented at 0, in a fill that fails
\* neither.
C9_CountersAreLiveCounts ==
    /\ grid.err = Ok => CountersLive(grid)
    /\ ~grid.wrapped
    /\ ~last_fill.wrapped

\* A fill of the search has returned Ok after removing candidates from cells
\* that stay unfilled: some counter is neither 0 nor 9.
C9_Witness ==
    /\ pc = "brute_force"
    /\ last_fill.by = "brute_force"
    /\ last_fill.err = Ok
    /\ grid.unfilled_cells > 0
    /\ \E r \in Idx : \E d \in Digits :
          /\ grid.candidate_occurrences.row[r][d - 1] \in 2 .. (N - 1)
          /\ grid.candidate_occurrences.row[r][d - 1] = RowCount(grid, r, d)

\* No unfilled cell of g has fewer than two candidates.
NoNakedSingle(g) == \A co \in Unfilled(g) : Cardinality(CellAt(g, co).cs) >= 2

\* No digit that is in no cell of a group of g is listed by exactly one cell
\* of the group.
NoHiddenSingle(g) ==
    \A G \in Groups : \A d \in Digits :
       (\A co \in G : CellAt(g, co).v # d)
          => Cardinality({co \in G : Lists(g, co, d)}) # 1

\* C10: in the grid of solve after every seed fill that returned Ok, and in
\* the grid of every branch fill of brute_force that returned Ok, every
\* unfilled cell has two candidates or more, and no digit missing from a group
\* is listed by exactly one cell of the group.
C10_FixedPoint ==
    grid.err = Ok => NoNakedSingle(grid) /\ NoHiddenSingle(grid)

\* A seed fill has returned Ok after a cascade that filled further cells, and
\* cells are left unfilled.
C10_Witness ==
    /\ pc = "load"
    /\ last_fill.by = "solve"
    /\ last_fill.err = Ok
    /\ last_fill.after < last_fill.before - 1
    /\ grid.unfilled_cells > 0
    /\ NoHiddenSingle(grid)
====
